---------------------------- MODULE Spec2Model ----------------------------
(***************************************************************************)
(* Model of the in-memory search engine of aurora-search-engine            *)
(* (src/search_engine.py): tokenizer, inverted-index build, OR lookup,     *)
(* relevance scoring and the search facade.                                *)
(*                                                                         *)
(* Text is a sequence of one-character strings.  A record is a function    *)
(* from field names to text; a field may be missing.  A collection is a    *)
(* sequence of records; Python position i is element i + 1.  An index is a *)
(* function from tokens (its keys, as in a defaultdict) to sets of         *)
(* positions.                                                              *)
(***************************************************************************)
EXTENDS Naturals, Sequences, FiniteSets

VARIABLES
    messages,       \* self.messages
    movies,         \* self.movies
    message_index,  \* self.message_index
    movie_index,    \* self.movie_index
    last,           \* the most recent call on the engine and what it returned
    loadCount,      \* number of completed load_data calls, counted up to MaxLoads
    pc,             \* position of a load_data call in progress
    loop_i,         \* loop counter of the build loop in progress
    arg_movies,     \* the movies argument of the load_data call in progress
    snap,           \* engine before / after the load_data call in progress
    tok,            \* a call of _tokenize: its argument and what it returned
    fetch           \* a call of fetch_all_messages: its locals and its outcome

vars == <<messages, movies, message_index, movie_index, last, loadCount,
          pc, loop_i, arg_movies, snap, tok, fetch>>

engine == <<messages, movies, message_index, movie_index>>

---------------------------------------------------------------------------
(* Bounds                                                                  *)

MaxMessages == 2
MaxMovies == 1
MaxLoads == 2
MaxQueryWords == 2
MaxRankWords == 5
MaxConcWords == 1
MaxTextLen == 4
MaxPageItems == 2
MaxPages == 3
MaxTotal == 5

---------------------------------------------------------------------------
(* Characters and text                                                     *)

LowerLetters == {"a", "b", "c"}
UpperLetters == {"A", "B", "C"}
Digits == {"1"}
Whitespace == {" "}
Punctuation == {","}

\* str.lower() on one character
lower_char(c) ==
    CASE c = "A" -> "a"
      [] c = "B" -> "b"
      [] c = "C" -> "c"
      [] OTHER -> c

\* str.lower()
lower(text) == [k \in 1..Len(text) |-> lower_char(text[k])]

\* the regular expression class \w
is_word_char(c) == c \in LowerLetters \cup UpperLetters \cup Digits \cup {"_"}

\* str.strip() leaves nothing
strip_is_empty(text) == \A k \in 1..Len(text) : text[k] \in Whitespace

\* "word in text_lower": substring containment
contains(text, word) ==
    \E s \in 0..Len(text) :
        /\ s + Len(word) <= Len(text)
        /\ \A k \in 1..Len(word) : text[s + k] = word[k]

\* re.findall(r'\b\w+\b', text): scan left to right, cur is the run being read
RECURSIVE findall_words(_, _, _, _)
findall_words(text, k, cur, acc) ==
    IF k > Len(text)
    THEN IF cur = <<>> THEN acc ELSE Append(acc, cur)
    ELSE IF is_word_char(text[k])
         THEN findall_words(text, k + 1, Append(cur, text[k]), acc)
         ELSE findall_words(text, k + 1, <<>>,
                            IF cur = <<>> THEN acc ELSE Append(acc, cur))

\* _tokenize with a slip: text.lower() left out
tokenize_no_lower(text) == findall_words(text, 1, <<>>, <<>>)

tokenize(text) == findall_words(lower(text), 1, <<>>, <<>>)

---------------------------------------------------------------------------
(* Records                                                                 *)

\* dict.get(field, "")
get(rec, field) == IF field \in DOMAIN rec THEN rec[field] ELSE <<>>

\* f"{text} {user_name}"
message_text(rec) == get(rec, "message") \o <<" ">> \o get(rec, "user_name")

\* f"{title} {description}"
movie_text(rec) == get(rec, "title") \o <<" ">> \o get(rec, "description")

record_text(rec, kind) ==
    IF kind = "message" THEN message_text(rec) ELSE movie_text(rec)

---------------------------------------------------------------------------
(* Inverted index                                                          *)

\* defaultdict(set) with no keys
empty_index == [t \in {} |-> {}]

\* reading a key that may be absent, without inserting it
lookup(index, word) == IF word \in DOMAIN index THEN index[word] ELSE {}

\* index_add with a slip: index[word] = {idx}
index_add_overwrite(index, word, idx) ==
    [t \in DOMAIN index \cup {word} |-> IF t = word THEN {idx} ELSE index[t]]

\* self.message_index[word].add(idx)
index_add(index, word, idx) ==
    [t \in DOMAIN index \cup {word} |->
        IF t = word THEN lookup(index, word) \cup {idx} ELSE index[t]]

\* for word in words: index[word].add(idx)
RECURSIVE index_words(_, _, _, _)
index_words(index, words, k, idx) ==
    IF k > Len(words) THEN index
    ELSE index_words(index_add(index, words[k], idx), words, k + 1, idx)

\* one iteration of the build loop: the record at position idx
index_record(index, rec, idx, kind) ==
    index_words(index, tokenize(record_text(rec, kind)), 1, idx)

\* for idx, record in enumerate(collection), from position idx on
RECURSIVE build_from(_, _, _, _)
build_from(index, coll, idx, kind) ==
    IF idx >= Len(coll) THEN index
    ELSE build_from(index_record(index, coll[idx + 1], idx, kind),
                    coll, idx + 1, kind)

build_message_index(index, coll) == build_from(index, coll, 0, "message")

build_movie_index(index, coll) == build_from(index, coll, 0, "movie")

---------------------------------------------------------------------------
(* Query engine                                                            *)

\* matching_indices with a slip: a record must hold every query word
matching_indices_and(index, query_words) ==
    {idx \in UNION {lookup(index, query_words[k]) : k \in 1..Len(query_words)} :
        \A k \in 1..Len(query_words) : idx \in lookup(index, query_words[k])}

\* matching_indices after the loop over query_words
matching_indices(index, query_words) ==
    UNION {lookup(index, query_words[k]) : k \in 1..Len(query_words)}

\* lookup_effect with a slip: index[word] read without the "in" test, which
\* inserts the missing key into the defaultdict
lookup_effect_unguarded(index, word) ==
    [t \in DOMAIN index \cup {word} |-> lookup(index, t)]

\* what "if word in index: ... index[word]" leaves of the index
lookup_effect(index, word) == index

\* the index after the loop over query_words
RECURSIVE index_after_lookups(_, _, _)
index_after_lookups(index, query_words, k) ==
    IF k > Len(query_words) THEN index
    ELSE index_after_lookups(lookup_effect(index, query_words[k]),
                             query_words, k + 1)

\* sum(1 for word in query_words if word in text_lower)
score(rec, query_words, kind) ==
    LET text_lower == lower(record_text(rec, kind))
    IN  Cardinality({k \in 1..Len(query_words) :
                        contains(text_lower, query_words[k])})

\* one step of the stable sort by score, descending: the pair goes behind
\* every pair already placed whose score is not smaller
insert_desc(sorted, pair) ==
    LET p == Cardinality({k \in 1..Len(sorted) : sorted[k].score >= pair.score})
    IN  SubSeq(sorted, 1, p) \o <<pair>> \o SubSeq(sorted, p + 1, Len(sorted))

RECURSIVE sort_desc(_, _, _)
sort_desc(scored, k, sorted) ==
    IF k > Len(scored) THEN sorted
    ELSE sort_desc(scored, k + 1, insert_desc(sorted, scored[k]))

\* the sorted (score, item) pairs
score_and_sort(results, query_words, kind) ==
    LET scored == [k \in 1..Len(results) |->
                     [score |-> score(results[k], query_words, kind),
                      item |-> results[k]]]
    IN  sort_desc(scored, 1, <<>>)

\* iterating a set of ints: CPython walks the hash table by slot, and an int
\* below the table size (8 at least) sits in the slot of its own value, so
\* positions come out ascending
iteration_order(S) ==
    [k \in 1..Cardinality(S) |->
        CHOOSE p \in S : Cardinality({x \in S : x < p}) = k - 1]

\* _search_messages / _search_movies: collection[idx] raises IndexError past
\* the end of the collection
search_collection(index, coll, query_words, kind) ==
    LET order == iteration_order(matching_indices(index, query_words))
    IN  IF \E k \in 1..Len(order) : order[k] >= Len(coll)
        THEN [error |-> TRUE, scored |-> <<>>]
        ELSE [error |-> FALSE,
              scored |-> score_and_sort([k \in 1..Len(order) |-> coll[order[k] + 1]],
                                        query_words, kind)]

---------------------------------------------------------------------------
(* Inputs                                                                  *)

\* message records: a repeated token in upper and lower case; a missing
\* message field and punctuation
MessagePool ==
    { [id |-> <<"1">>, message |-> <<"a">>, user_name |-> <<"A">>],
      [id |-> <<"2">>, user_name |-> <<"B", ",", "c">>] }

\* movie records: both fields, upper case, and a token ("ab_1") that
\* contains other tokens
MoviePool ==
    { [id |-> <<"m1">>, title |-> <<"A", " ", "c">>,
       description |-> <<"a", "b", "_", "1">>] }

seqs_up_to(S, n) == UNION {[1..k -> S] : k \in 0..n}

MessageCollections == seqs_up_to(MessagePool, MaxMessages)

MovieCollections == seqs_up_to(MoviePool, MaxMovies)

\* words a query is written with: a token, upper case, punctuation only
QueryWords == { <<"a">>, <<"B">>, <<",">> }

\* a query of whitespace only
BlankQuery == <<" ">>

RankWords == { <<"a">>, <<"b">>, <<"c">> }

\* " ".join(words)
RECURSIVE join(_, _)
join(words, k) ==
    IF k > Len(words) THEN <<>>
    ELSE IF k = Len(words) THEN words[k]
    ELSE words[k] \o <<" ">> \o join(words, k + 1)

queries(words, n) == {join(ws, 1) : ws \in seqs_up_to(words, n)}

Queries == queries(QueryWords, MaxQueryWords) \cup {BlankQuery}

RankQueries == queries(RankWords, MaxRankWords)

ConcQueries == queries(QueryWords, MaxConcWords) \cup {BlankQuery}

Scopes == {"messages", "movies", "all"}

---------------------------------------------------------------------------
(* Engine operations                                                       *)

no_results == [key \in {} |-> <<>>]

both_empty == [key \in {"messages", "movies"} |-> <<>>]

\* assign_collection with a slip: self.messages.extend(messages)
assign_collection_extend(old, new) == old \o new

\* self.messages = messages
assign_collection(old, new) == new

\* no call of _tokenize made yet
no_call == [pc |-> "idle", text |-> <<>>, tokens |-> <<>>]

\* fetch_all_messages not called yet
not_fetching == [pc |-> "idle", all_messages |-> <<>>, skip |-> 0, status |-> 0,
                 received |-> <<>>, result |-> <<>>]

\* SearchEngine() with nothing loaded
new_engine ==
    /\ messages = <<>>
    /\ movies = <<>>
    /\ message_index = empty_index
    /\ movie_index = empty_index
    /\ last = [op |-> "init", again |-> FALSE, query |-> <<>>, scope |-> "none",
               error |-> FALSE, results |-> no_results, scores |-> no_results]
    /\ loadCount = 0
    /\ pc = "idle"
    /\ loop_i = 0
    /\ arg_movies = <<>>
    /\ snap = [pre |-> <<<<>>, <<>>, empty_index, empty_index>>,
               post |-> <<<<>>, <<>>, empty_index, empty_index>>]

Init ==
    /\ new_engine
    /\ tok = no_call
    /\ fetch = not_fetching

\* load_data(M, V) as one step
load_data(M, V) ==
    /\ pc = "idle"
    /\ messages' = assign_collection(messages, M)
    /\ movies' = assign_collection(movies, V)
    /\ message_index' = build_message_index(message_index, messages')
    /\ movie_index' = build_movie_index(movie_index, movies')
    /\ last' = [op |-> "load",
                again |-> (last.op = "load" /\ M = messages /\ V = movies),
                query |-> <<>>, scope |-> "none",
                error |-> FALSE, results |-> no_results, scores |-> no_results]
    /\ loadCount' = IF loadCount < MaxLoads THEN loadCount + 1 ELSE loadCount
    /\ UNCHANGED <<pc, loop_i, arg_movies, snap, tok, fetch>>

items_of(scored) == [k \in 1..Len(scored) |-> scored[k].item]

scores_of(scored) == [k \in 1..Len(scored) |-> scored[k].score]

\* what search returns once both sides it was asked for are computed
search_return(q, scope, m, v) ==
    LET keys == (IF scope \in {"messages", "all"} THEN {"messages"} ELSE {})
                \cup (IF scope \in {"movies", "all"} THEN {"movies"} ELSE {})
        failed == \/ ("messages" \in keys /\ m.error)
                  \/ ("movies" \in keys /\ v.error)
        side(key) == IF key = "messages" THEN m.scored ELSE v.scored
    IN  [op |-> "search", again |-> FALSE, query |-> q, scope |-> scope,
         error |-> failed,
         results |-> IF failed THEN no_results
                     ELSE [key \in keys |-> items_of(side(key))],
         scores |-> IF failed THEN no_results
                    ELSE [key \in keys |-> scores_of(side(key))]]

\* search(q, scope)
search(q, scope) ==
    LET query_words == tokenize(q)
    IN  IF Len(q) = 0 \/ strip_is_empty(q) \/ Len(query_words) = 0
        THEN /\ last' = [op |-> "search", again |-> FALSE, query |-> q,
                         scope |-> scope, error |-> FALSE,
                         results |-> both_empty, scores |-> both_empty]
             /\ UNCHANGED <<messages, movies, message_index, movie_index>>
        ELSE /\ last' = search_return(q, scope,
                        search_collection(message_index, messages,
                                          query_words, "message"),
                        search_collection(movie_index, movies,
                                          query_words, "movie"))
             /\ message_index' = IF scope \in {"messages", "all"}
                                 THEN index_after_lookups(message_index, query_words, 1)
                                 ELSE message_index
             /\ movie_index' = IF scope \in {"movies", "all"}
                               THEN index_after_lookups(movie_index, query_words, 1)
                               ELSE movie_index
             /\ UNCHANGED <<messages, movies>>

\* a call of load_data, once the call before it has returned
Load ==
    /\ last.op # "search"
    /\ \E M \in MessageCollections : \E V \in MovieCollections : load_data(M, V)

\* a call of search, once the call before it has returned
Search ==
    /\ pc = "idle"
    /\ last.op # "search"
    /\ \E q \in Queries : \E scope \in Scopes :
          search(q, scope)
    /\ UNCHANGED <<loadCount, pc, loop_i, arg_movies, snap, tok, fetch>>

\* the caller takes the result of search: the endpoint builds its response
\* from it and returns
Respond ==
    /\ last.op = "search"
    /\ last' = [op |-> "idle", again |-> FALSE, query |-> <<>>, scope |-> "none",
                error |-> FALSE, results |-> no_results, scores |-> no_results]
    /\ UNCHANGED <<messages, movies, message_index, movie_index, loadCount,
                   pc, loop_i, arg_movies, snap, tok, fetch>>

Next == Load \/ Search \/ Respond

Spec == Init /\ [][Next]_vars

---------------------------------------------------------------------------
(* One query on an engine loaded at most once, with longer queries         *)

LoadOnce ==
    /\ loadCount = 0
    /\ last.op = "init"
    /\ \E M \in MessageCollections : \E V \in MovieCollections : load_data(M, V)

SearchRank ==
    /\ pc = "idle"
    /\ last.op # "search"
    /\ \E q \in RankQueries : \E scope \in Scopes : search(q, scope)
    /\ UNCHANGED <<loadCount, pc, loop_i, arg_movies, snap, tok, fetch>>

NextRank == LoadOnce \/ SearchRank

SpecRank == Init /\ [][NextRank]_vars

---------------------------------------------------------------------------
(* load_data statement by statement, with searches from other threads in   *)
(* between: the engine takes no lock                                       *)

loading == [op |-> "loading", again |-> FALSE, query |-> <<>>, scope |-> "none",
            error |-> FALSE, results |-> no_results, scores |-> no_results]

\* the engine once load_data(M, V) has run to its end
engine_after_load(M, V) ==
    LET ms == assign_collection(messages, M)
        vs == assign_collection(movies, V)
    IN  <<ms, vs, build_message_index(message_index, ms),
          build_movie_index(movie_index, vs)>>

\* self.messages = messages
LoadStart ==
    /\ pc = "idle"
    /\ loadCount < MaxLoads
    /\ \E M \in MessageCollections : \E V \in MovieCollections :
          /\ messages' = assign_collection(messages, M)
          /\ arg_movies' = V
          /\ snap' = [pre |-> engine, post |-> engine_after_load(M, V)]
    /\ pc' = "assign_movies"
    /\ last' = loading
    /\ UNCHANGED <<movies, message_index, movie_index, loadCount, loop_i, tok, fetch>>

\* self.movies = movies
AssignMovies ==
    /\ pc = "assign_movies"
    /\ movies' = assign_collection(movies, arg_movies)
    /\ pc' = "build_messages"
    /\ loop_i' = 0
    /\ last' = loading
    /\ UNCHANGED <<messages, message_index, movie_index, loadCount, arg_movies, snap,
                   tok, fetch>>

\* one iteration of the loop of _build_message_index, or its end
BuildMessageStep ==
    /\ pc = "build_messages"
    /\ IF loop_i < Len(messages)
       THEN /\ message_index' =
                  index_record(message_index, messages[loop_i + 1], loop_i, "message")
            /\ loop_i' = loop_i + 1
            /\ pc' = pc
       ELSE /\ message_index' = message_index
            /\ loop_i' = 0
            /\ pc' = "build_movies"
    /\ last' = loading
    /\ UNCHANGED <<messages, movies, movie_index, loadCount, arg_movies, snap,
                   tok, fetch>>

\* one iteration of the loop of _build_movie_index, or its end and the return
BuildMovieStep ==
    /\ pc = "build_movies"
    /\ IF loop_i < Len(movies)
       THEN /\ movie_index' =
                  index_record(movie_index, movies[loop_i + 1], loop_i, "movie")
            /\ loop_i' = loop_i + 1
            /\ pc' = pc
            /\ loadCount' = loadCount
            /\ last' = loading
       ELSE /\ movie_index' = movie_index
            /\ loop_i' = 0
            /\ pc' = "idle"
            /\ loadCount' = loadCount + 1
            /\ last' = [loading EXCEPT !.op = "load"]
    /\ UNCHANGED <<messages, movies, message_index, arg_movies, snap, tok, fetch>>

\* a search from another thread, at any point of the load
ConcSearch ==
    /\ \E q \in ConcQueries : \E scope \in Scopes : search(q, scope)
    /\ UNCHANGED <<loadCount, pc, loop_i, arg_movies, snap, tok, fetch>>

NextConc ==
    LoadStart \/ AssignMovies \/ BuildMessageStep \/ BuildMovieStep \/ ConcSearch

SpecConc == Init /\ [][NextConc]_vars

---------------------------------------------------------------------------
(* _tokenize called on its own, on every text up to MaxTextLen characters  *)

TextChars == {"a", "B", "b", "_", "1", " ", ","}

Texts == seqs_up_to(TextChars, MaxTextLen)

\* engine._tokenize(text) is called on a new engine
InitTok ==
    /\ new_engine
    /\ fetch = not_fetching
    /\ \E text \in Texts : tok = [pc |-> "called", text |-> text, tokens |-> <<>>]

\* the call returns
Tokenize ==
    /\ tok.pc = "called"
    /\ tok' = [tok EXCEPT !.pc = "returned", !.tokens = tokenize(tok.text)]
    /\ UNCHANGED <<messages, movies, message_index, movie_index, last, loadCount,
                   pc, loop_i, arg_movies, snap, fetch>>

NextTok == Tokenize

SpecTok == InitTok /\ [][NextTok]_vars

---------------------------------------------------------------------------
(* fetch_all_messages (src/data_fetcher.py) against an upstream that       *)
(* answers each request as it likes                                        *)

\* limit = 100
limit == 100

\* the statuses on which the loop stops quietly
stop_statuses == {400, 401, 402, 405}

\* the error statuses the upstream may answer with
ErrorStatuses == {400, 401, 402, 403, 405, 500}

MessageIds == {"m1", "m2"}

\* the "items" of one response
Pages == seqs_up_to(MessageIds, MaxPageItems)

\* fetch_all_messages() is called: all_messages = [], skip = 0
FetchStart ==
    /\ fetch.pc = "idle"
    /\ fetch' = [not_fetching EXCEPT !.pc = "loop"]
    /\ UNCHANGED <<messages, movies, message_index, movie_index, last, loadCount,
                   pc, loop_i, arg_movies, snap, tok>>

\* the function returns all_messages
fetch_return(f) == [f EXCEPT !.pc = "returned", !.result = f.all_messages]

\* one pass of the loop whose request is answered with 200, items and total
FetchPage ==
    /\ fetch.pc = "loop"
    /\ fetch.skip < MaxPages * limit
    /\ \E items \in Pages : \E total \in 0..MaxTotal :
          LET got == [fetch EXCEPT !.status = 200]
              extended == [got EXCEPT !.all_messages = fetch.all_messages \o items,
                                      !.received = Append(fetch.received, items)]
          IN  fetch' = IF Len(items) = 0
                       THEN fetch_return(got)
                       ELSE IF Len(extended.all_messages) >= total
                            THEN fetch_return(extended)
                            ELSE [extended EXCEPT !.skip = fetch.skip + limit]
    /\ UNCHANGED <<messages, movies, message_index, movie_index, last, loadCount,
                   pc, loop_i, arg_movies, snap, tok>>

\* one pass of the loop whose request is answered with an error status:
\* raise_for_status() raises, the handler stops the loop or raises again
FetchRefused ==
    /\ fetch.pc = "loop"
    /\ \E status \in ErrorStatuses :
          LET got == [fetch EXCEPT !.status = status]
          IN  fetch' = IF status \in stop_statuses
                       THEN fetch_return(got)
                       ELSE [got EXCEPT !.pc = "raised"]
    /\ UNCHANGED <<messages, movies, message_index, movie_index, last, loadCount,
                   pc, loop_i, arg_movies, snap, tok>>

NextFetch == FetchStart \/ FetchPage \/ FetchRefused

SpecFetch == Init /\ [][NextFetch]_vars

---------------------------------------------------------------------------
(* What the claims speak of, stated without the engine's operators         *)

\* the maximal runs of word characters of the text, lowercased
tokens_of(text) ==
    {lower(SubSeq(text, r[1], r[2])) :
        r \in {r \in (1..Len(text)) \X (1..Len(text)) :
                  /\ r[1] <= r[2]
                  /\ \A k \in r[1]..r[2] : is_word_char(text[k])
                  /\ r[1] = 1 \/ ~is_word_char(text[r[1] - 1])
                  /\ r[2] = Len(text) \/ ~is_word_char(text[r[2] + 1])}}

is_token_of(t, text) == t \in tokens_of(text)

\* the searchable fields of a collection
fields_of(key) ==
    IF key = "messages" THEN {"message", "user_name"} ELSE {"title", "description"}

\* t is a token of a searchable field the record has
record_has_token(rec, key, t) ==
    \E f \in fields_of(key) \cap DOMAIN rec : is_token_of(t, rec[f])

\* the distinct tokens of a query
query_tokens(q) == tokens_of(q)

kind_of(key) == IF key = "messages" THEN "message" ELSE "movie"

collection_of(key) == IF key = "messages" THEN messages ELSE movies

index_of(key) == IF key = "messages" THEN message_index ELSE movie_index

\* the distinct query tokens that occur in the record's lowercased text
distinct_matches(rec, key, q) ==
    Cardinality({t \in query_tokens(q) :
                    contains(lower(record_text(rec, kind_of(key))), t)})

requested(scope) ==
    IF scope = "all" THEN {"messages", "movies"} ELSE {scope}

Keys == {"messages", "movies"}

---------------------------------------------------------------------------
(* Claims                                                                  *)

\* C1: after load(A) then load(B) every index lookup equals that of a fresh
\* engine on which only load(B) was called: no token or position of A remains.
C1_ReloadReplaces ==
    loadCount >= 1 =>
        /\ \A t \in DOMAIN message_index :
              lookup(message_index, t)
                  = lookup(build_message_index(empty_index, messages), t)
        /\ \A t \in DOMAIN movie_index :
              lookup(movie_index, t)
                  = lookup(build_movie_index(empty_index, movies), t)

\* C2: for every query, search(q, "messages") returns a mapping with the key
\* "messages" and never "movies", and search(q, "movies") one with the key
\* "movies" and never "messages".
C2_ScopeIsolation ==
    (last.op = "search" /\ last.scope \in {"messages", "movies"}) =>
        /\ ~last.error
        /\ DOMAIN last.results = {last.scope}

\* C3: search(q, "all") returns both keys for every query and every engine
\* state and raises no error; a blank or token-free query maps both keys to
\* the empty sequence.
C3_AllHasBothKeys ==
    (last.op = "search" /\ last.scope = "all") =>
        /\ ~last.error
        /\ DOMAIN last.results = Keys
        /\ query_tokens(last.query) = {} =>
              \A key \in Keys : last.results[key] = <<>>

\* C4: after a single load, for a query with at least one token, the records
\* returned for a scope are exactly the records of that collection that have
\* at least one query token as a token.
C4_OrSemantics ==
    (last.op = "search" /\ loadCount = 1 /\ query_tokens(last.query) # {}) =>
        /\ ~last.error
        /\ \A key \in requested(last.scope) :
              LET coll == collection_of(key)
                  hits == {i \in 1..Len(coll) :
                              \E t \in query_tokens(last.query) :
                                  record_has_token(coll[i], key, t)}
                  res == last.results[key]
              IN  /\ Len(res) = Cardinality(hits)
                  /\ {res[k] : k \in 1..Len(res)} = {coll[i] : i \in hits}

\* C4 witness: two different records returned, each for one of two query tokens
C4_Witness ==
    /\ last.op = "search"
    /\ loadCount = 1
    /\ last.scope = "messages"
    /\ ~last.error
    /\ Cardinality(query_tokens(last.query)) = 2
    /\ Len(last.results["messages"]) = 2
    /\ last.results["messages"][1] # last.results["messages"][2]
    /\ \A k \in 1..2 : last.scores["messages"][k] = 1

\* C5: the score of every returned record is the number of distinct query
\* tokens that occur in its lowercased searchable text, at least 1 and at most
\* the number of distinct query tokens.
C5_ScoreCountsDistinct ==
    (last.op = "search" /\ ~last.error) =>
        \A key \in DOMAIN last.results :
            \A k \in 1..Len(last.results[key]) :
                /\ last.scores[key][k]
                       = distinct_matches(last.results[key][k], key, last.query)
                /\ last.scores[key][k] >= 1
                /\ last.scores[key][k] <= Cardinality(query_tokens(last.query))

\* C6: in every result sequence a record that matches more distinct query
\* tokens never appears after a record that matches fewer.
C6_OrderedByDistinctMatches ==
    (last.op = "search" /\ ~last.error) =>
        \A key \in DOMAIN last.results :
            \A j \in 1..Len(last.results[key]) :
                \A k \in j..Len(last.results[key]) :
                    distinct_matches(last.results[key][j], key, last.query)
                        >= distinct_matches(last.results[key][k], key, last.query)

\* C7: a search that runs while load_data is in progress and looks its query
\* tokens up reads, for each collection it searches, a collection and index
\* that are together those from before the load or those the load ends with.
C7_NoPartialPairRead ==
    (last.op = "search" /\ pc # "idle" /\ query_tokens(last.query) # {}) =>
        /\ "messages" \in requested(last.scope) =>
              \/ <<messages, message_index>> = <<snap.pre[1], snap.pre[3]>>
              \/ <<messages, message_index>> = <<snap.post[1], snap.post[3]>>
        /\ "movies" \in requested(last.scope) =>
              \/ <<movies, movie_index>> = <<snap.pre[2], snap.pre[4]>>
              \/ <<movies, movie_index>> = <<snap.post[2], snap.post[4]>>

\* C8: load(M, V) called right after load(M, V) leaves every lookup of both
\* indexes as it was after the first call.
C8_LoadIdempotent ==
    [][(last'.op = "load" /\ last'.again) =>
          /\ \A t \in DOMAIN message_index \cup DOMAIN message_index' :
                lookup(message_index', t) = lookup(message_index, t)
          /\ \A t \in DOMAIN movie_index \cup DOMAIN movie_index' :
                lookup(movie_index', t) = lookup(movie_index, t)]_vars

\* C8 witness: the same non-empty collections have just been loaded again
C8_Witness ==
    /\ last.op = "load"
    /\ last.again
    /\ Len(messages) = MaxMessages
    /\ movies # <<>>
    /\ DOMAIN message_index # {}
    /\ DOMAIN movie_index # {}

\* a token that occurs in no record
AbsentToken == <<"c", "c">>

\* the tokens of every field, searchable or not, of every record of the pools
PoolTokens ==
    UNION {UNION {tokens_of(r[f]) : f \in DOMAIN r} : r \in MessagePool \cup MoviePool}

\* C9: after load on a fresh engine, position i is in the index's set for
\* token t exactly when t is a token of a searchable field of record i; a
\* token of no record has an empty lookup, an empty collection an empty index.
C9_IndexBuildCorrect ==
    loadCount = 1 =>
        \A key \in Keys :
            LET coll == collection_of(key)
                index == index_of(key)
            IN  /\ \A t \in DOMAIN index \cup {AbsentToken} \cup PoolTokens :
                        \A i \in 0..Len(coll) :
                            i \in lookup(index, t)
                                <=> (i < Len(coll) /\ record_has_token(coll[i + 1], key, t))
                /\ \A t \in DOMAIN index : \A i \in index[t] : i < Len(coll)
                /\ coll = <<>> => DOMAIN index = {}

\* C9 witness: a fresh engine loaded with a token at two positions
C9_Witness ==
    /\ loadCount = 1
    /\ last.op = "load"
    /\ Len(messages) = 2
    /\ lookup(message_index, <<"a">>) = {0, 1}
    /\ lookup(message_index, AbsentToken) = {}
    /\ movies = <<>>
    /\ DOMAIN movie_index = {}

\* C10: a search leaves both collections and both indexes as they were: no
\* key is added or removed and no position set changes.
C10_SearchReadOnly ==
    [][last'.op = "search" =>
          /\ messages' = messages
          /\ movies' = movies
          /\ DOMAIN message_index' = DOMAIN message_index
          /\ DOMAIN movie_index' = DOMAIN movie_index
          /\ \A t \in DOMAIN message_index : message_index'[t] = message_index[t]
          /\ \A t \in DOMAIN movie_index : movie_index'[t] = movie_index[t]]_vars

\* C10 witness: a search over both indexes with a query token neither holds
C10_Witness ==
    /\ last.op = "search"
    /\ last.scope = "all"
    /\ loadCount >= 1
    /\ DOMAIN message_index # {}
    /\ DOMAIN movie_index # {}
    /\ \E t \in query_tokens(last.query) :
          t \notin DOMAIN message_index /\ t \notin DOMAIN movie_index

---------------------------------------------------------------------------
(* The tokenizer                                                           *)

\* the maximal runs of word characters of the text, as pairs <<first, last>>
runs_of(text) ==
    {r \in (1..Len(text)) \X (1..Len(text)) :
        /\ r[1] <= r[2]
        /\ \A k \in r[1]..r[2] : is_word_char(text[k])
        /\ r[1] = 1 \/ ~is_word_char(text[r[1] - 1])
        /\ r[2] = Len(text) \/ ~is_word_char(text[r[2] + 1])}

\* the k-th run from the left
nth_run(text, k) ==
    CHOOSE r \in runs_of(text) :
        Cardinality({x \in runs_of(text) : x[1] < r[1]}) = k - 1

\* C11: _tokenize returns, in order of occurrence and with duplicates kept,
\* exactly the maximal runs of word characters of the lowercased input; every
\* token is lowercase and non-empty, has no separator or punctuation character,
\* and empty or whitespace-only input gives the empty sequence.
C11_TokenizeMaximalRuns ==
    tok.pc = "returned" =>
        LET lowered == lower(tok.text)
        IN  /\ Len(tok.tokens) = Cardinality(runs_of(lowered))
            /\ \A k \in 1..Len(tok.tokens) :
                  /\ tok.tokens[k] = SubSeq(lowered, nth_run(lowered, k)[1],
                                            nth_run(lowered, k)[2])
                  /\ Len(tok.tokens[k]) > 0
                  /\ \A j \in 1..Len(tok.tokens[k]) :
                        /\ tok.tokens[k][j] \notin UpperLetters
                        /\ tok.tokens[k][j] \notin Whitespace \cup Punctuation
                        /\ tok.tokens[k][j] \in LowerLetters \cup Digits \cup {"_"}
            /\ (Len(tok.text) = 0 \/ strip_is_empty(tok.text)) => tok.tokens = <<>>

\* C11 witness: an input with an upper-case letter, punctuation, whitespace and
\* the same word twice
C11_Witness ==
    /\ tok.pc = "returned"
    /\ tok.text = <<"B", ",", " ", "b">>
    /\ tok.tokens = <<<<"b">>, <<"b">>>>

---------------------------------------------------------------------------
(* The fetcher                                                             *)

\* HTTP 402 Payment Required and 403 Forbidden
RefusalStatuses == {402, 403}

\* the items of the pages received, one after the other
RECURSIVE concat_pages(_)
concat_pages(pages) ==
    IF pages = <<>> THEN <<>> ELSE Head(pages) \o concat_pages(Tail(pages))

\* C12: when the upstream refuses a pagination offset with a payment-required
\* or forbidden status, fetch_all_messages stops paginating and returns exactly
\* the messages of the pages fetched before it; it does not raise.
C12_RefusedOffsetStops ==
    (fetch.pc \in {"returned", "raised"} /\ fetch.status \in RefusalStatuses) =>
        /\ fetch.pc = "returned"
        /\ fetch.result = concat_pages(fetch.received)

---------------------------------------------------------------------------
(* Positions held by the indexes                                           *)

\* every position the index holds is a position of the collection
positions_valid(index, coll) ==
    \A t \in DOMAIN index : \A p \in index[t] : p < Len(coll)

\* C13: after any sequence of loads, every position in the message index is a
\* position of the current messages and every position in the movie index is a
\* position of the current movies, so a search neither fails on a position out
\* of range nor returns a record that is not in the current collection.
C13_IndexPositionsValid ==
    /\ positions_valid(message_index, messages)
    /\ positions_valid(movie_index, movies)
    /\ last.op = "search" =>
          /\ ~last.error
          /\ \A key \in DOMAIN last.results :
                \A k \in 1..Len(last.results[key]) :
                   \E p \in 1..Len(collection_of(key)) :
                      collection_of(key)[p] = last.results[key][k]

==========================================================================
